---- MODULE Spec2Model ----
(***************************************************************************)
(* A model of bpmdelay_pingpong.cpp, the BPM-synchronised ping-pong delay  *)
(* for the NTS-1: DELFX_INIT, DELFX_PROCESS (with readFrac) and            *)
(* DELFX_PARAM acting on the module's globals.                             *)
(*                                                                         *)
(* Number representation.  The code computes in 32-bit floats.  A float    *)
(* is modelled as an integer on a fixed grid, every operation rounding to  *)
(* the nearest grid point as the FPU rounds to the nearest float:          *)
(*   - amplitudes, knob values and mix coefficients (magnitude about 1)    *)
(*     are counted in units of 1/ONE;                                      *)
(*   - delay times and read positions (samples) are counted in units of    *)
(*     1/U of a sample.                                                    *)
(* The delay line has 2^LogSize cells instead of 0x40000, and the engine   *)
(* runs at SAMPLE_RATE \div Decimation samples per second, which keeps the  *)
(* proportion between one second of samples and the line length.           *)
(***************************************************************************)
EXTENDS Integers, Sequences, FiniteSets, TLC

(* ------------------------------ bounds --------------------------------- *)
LogSize == 4
Decimation == 16000
FracBits == 12
HalfBits == 10
MaxBlock == 1
MaxRun == 1
MaxLongBlock == 2
LowBlock == 8
KnobSteps == 28

(* ------------------------- program constants --------------------------- *)
NUM_DELAY_DIVISIONS == 15
DELAY_GLIDE_RATE == 12000
MIN_BPM == 56
NUM_NOTES_PER_BEAT == 4
SAMPLE_RATE == 48000
DELAY_LINE_SIZE == 2^LogSize
DELAY_LINE_SIZE_MASK == DELAY_LINE_SIZE - 1

k_user_delfx_param_time == 0
k_user_delfx_param_depth == 1
k_user_delfx_param_shift_depth == 2

(* --------------------------- float arithmetic -------------------------- *)
H == 2^HalfBits
\* the float 1.0 on the amplitude grid
ONE == H * H
\* one sample on the time grid
U == 2^FracBits
\* the largest q31 value, 0x7FFFFFFF
Q31_MAX == (2^30 - 1) * 2 + 1
\* q31 steps per amplitude grid step
Q31PerUnit == 2^(31 - 2 * HalfBits)

Abs(a) == IF a < 0 THEN -a ELSE a

\* a / d rounded to the nearest integer (d > 0)
RoundDiv(a, d) == (2 * a + d) \div (2 * d)

\* a * b / ONE for a, b >= 0, rounded to nearest, without leaving 32 bits
MulU(a, b) ==
  LET ah == a \div H
      al == a % H
      bh == b \div H
      bl == b % H
  IN  ah * bh + ((ah * bl + al * bh + (H \div 2) + ((al * bl) \div H)) \div H)

\* the float product a * b of two values on the amplitude grid
MulF(a, b) ==
  IF (a < 0) = (b < 0) THEN MulU(Abs(a), Abs(b)) ELSE -MulU(Abs(a), Abs(b))

\* the decimal literal n/d as a float on the amplitude grid
Frac(n, d) == RoundDiv(n * ONE, d)

RECURSIVE BitAnd(_, _)
\* a & b for a, b >= 0
BitAnd(a, b) ==
  IF a = 0 \/ b = 0 THEN 0
  ELSE (a % 2) * (b % 2) + 2 * BitAnd(a \div 2, b \div 2)

(* ------------------------------- state --------------------------------- *)
VARIABLES
  delayLine_L,        \* left delay line, cell -> sample
  delayLine_R,        \* right delay line
  delayLine_Wr,       \* write cursor
  currentDelayTime,   \* glided delay time (time grid)
  targetDelayTime,    \* delay time aimed at (time grid)
  valDepth,           \* feedback depth
  valTime,            \* time knob
  multiplier,         \* entry of delayDivisions selected by the time knob
  wet,
  dry,
  bpm,                \* the host's tempo, as fx_get_bpmf() returns it
  xn,                 \* the buffer of the last DELFX_PROCESS call, after it
  loc,                \* the locals of each frame of the last DELFX_PROCESS call
  pcParam,            \* position of a DELFX_PARAM call on the wet/dry control
  s_mix               \* DELFX_PARAM's local s_mix

vars == <<delayLine_L, delayLine_R, delayLine_Wr, currentDelayTime,
          targetDelayTime, valDepth, valTime, multiplier, wet, dry, bpm,
          xn, loc, pcParam, s_mix>>

Cells == 0 .. (DELAY_LINE_SIZE - 1)

\* the engine's sample rate, in samples per second
ModelRate == SAMPLE_RATE \div Decimation

\* a delay line as DELFX_INIT's loop leaves it
ClearedLine == [i \in Cells |-> 0]

\* Delay BPM division with time knob from 0 to full
delayDivisions ==
  << Frac(1, 64), Frac(1, 48), Frac(1, 32), Frac(1, 24), Frac(1, 16),
     Frac(1, 12), Frac(1, 8),  Frac(1, 6),  Frac(3, 16), Frac(1, 4),
     Frac(1, 3),  Frac(3, 8),  Frac(1, 2),  Frac(3, 4),  ONE >>

(* ------------------------------ DELFX_INIT ----------------------------- *)
\* DELFX_INIT with the loop clearing the left line only
DELFX_INIT_KeepsRight ==
  /\ delayLine_Wr' = 0
  /\ delayLine_L' = ClearedLine
  /\ delayLine_R' = delayLine_R
  /\ currentDelayTime' = ModelRate * U
  /\ targetDelayTime' = ModelRate * U
  /\ valDepth' = 0
  /\ valTime' = 0
  /\ multiplier' = ONE
  /\ wet' = ONE \div 2
  /\ dry' = ONE \div 2
  /\ UNCHANGED <<bpm, xn, loc, pcParam, s_mix>>

DELFX_INIT ==
  /\ delayLine_Wr' = 0
  /\ delayLine_L' = ClearedLine
  /\ delayLine_R' = ClearedLine
  /\ currentDelayTime' = ModelRate * U
  /\ targetDelayTime' = ModelRate * U
  /\ valDepth' = 0
  /\ valTime' = 0
  /\ multiplier' = ONE
  /\ wet' = ONE \div 2
  /\ dry' = ONE \div 2
  /\ UNCHANGED <<bpm, xn, loc, pcParam, s_mix>>

\* the state DELFX_INIT produces, with the host at tempo b
Activated(b) ==
  /\ delayLine_Wr = 0
  /\ delayLine_L = ClearedLine
  /\ delayLine_R = ClearedLine
  /\ currentDelayTime = ModelRate * U
  /\ targetDelayTime = ModelRate * U
  /\ valDepth = 0
  /\ valTime = 0
  /\ multiplier = ONE
  /\ wet = ONE \div 2
  /\ dry = ONE \div 2
  /\ bpm = b
  /\ xn = << >>
  /\ loc = << >>
  /\ pcParam = "idle"
  /\ s_mix = ONE \div 2

(* ----------------------------- DELFX_PROCESS --------------------------- *)
\* targetDelayTime = SAMPLE_RATE * bpm_s * NUM_NOTES_PER_BEAT * multiplier,
\* after the bpmF <= 0 failsafe; bpmF in whole beats per minute
TargetDelayTime(bpmF_in, mult) ==
  LET bpmF == IF bpmF_in <= 0 THEN MIN_BPM ELSE bpmF_in
      bpm_s == RoundDiv(60 * ONE, bpmF)
  IN  MulF(MulF(ModelRate * U, bpm_s) * NUM_NOTES_PER_BEAT, mult)

\* one glide step: delta = target - current; delta /= DELAY_GLIDE_RATE;
\* current += delta.  The sum is rounded to the nearest point of the time
\* grid, ties to the even one, as the float addition rounds.
Glide(current, target) ==
  LET delta == target - current
      q == delta \div DELAY_GLIDE_RATE
      r == delta % DELAY_GLIDE_RATE
  IN  IF 2 * r < DELAY_GLIDE_RATE THEN current + q
      ELSE IF 2 * r > DELAY_GLIDE_RATE THEN current + q + 1
      ELSE IF (current + q) % 2 = 0 THEN current + q
      ELSE current + q + 1

\* if (readIndex < 0) readIndex += DELAY_LINE_SIZE_MASK
WrapReadIndex(r) == IF r < 0 THEN r + DELAY_LINE_SIZE_MASK * U ELSE r

\* the cursor masked with the mask of a line of half the size
AdvanceCursor_HalfMask(w) == BitAnd(w + 1, DELAY_LINE_SIZE_MASK \div 2)

\* delayLine_Wr++; delayLine_Wr &= DELAY_LINE_SIZE_MASK
AdvanceCursor(w) == BitAnd(w + 1, DELAY_LINE_SIZE_MASK)

\* the values (uint32_t)pos may take when pos is negative, which the language
\* leaves undefined: 0 (a saturating conversion) or all mask bits set
UndefBase == {0, DELAY_LINE_SIZE_MASK}

\* linintf with the two samples exchanged
linintf_Swapped(fr, x0, x1) == x1 + MulF(fr * (ONE \div U), x0 - x1)

\* linintf of the logue SDK: x0 + fr * (x1 - x0), fr on the time grid
linintf(fr, x0, x1) == x0 + MulF(fr * (ONE \div U), x1 - x0)

\* readFrac(pos, pDelayLine); ub is the outcome of the undefined conversion
readFrac(pos, pDelayLine, ub) ==
  LET base == IF pos >= 0 THEN pos \div U ELSE ub
      frac == pos - base * U
      s0 == pDelayLine[BitAnd(base, DELAY_LINE_SIZE_MASK)]
      s1 == pDelayLine[BitAnd(base + 1, DELAY_LINE_SIZE_MASK)]
  IN  linintf(frac, s0, s1)

\* the body of the sample loop for one frame sigIn = <<left, right>>;
\* st holds the globals the loop changes plus the output and locals so far,
\* env what the loop reads
Frame(st, sigIn, env) ==
  LET cur == Glide(st.cur, env.tgt)
      sigInL == sigIn[1]
      sigInR == sigIn[2]
      readIndex == WrapReadIndex(st.Wr * U - cur)
      delayLineSig_R == readFrac(readIndex, st.R, env.ub)
      R1 == [st.R EXCEPT ![st.Wr] = sigInR]
      L1 == [st.L EXCEPT ![st.Wr] = MulF(delayLineSig_R, env.depth)]
      delayLineSig_L == readFrac(readIndex, L1, env.ub)
      R2 == [R1 EXCEPT ![st.Wr] = @ + MulF(delayLineSig_L, env.depth)]
      sigOutL == MulF(sigInL, env.dry) + MulF(delayLineSig_L, env.wet)
      sigOutR == MulF(sigInR, env.dry) + MulF(delayLineSig_R, env.wet)
  IN  [L |-> L1, R |-> R2, Wr |-> AdvanceCursor(st.Wr), cur |-> cur,
       out |-> Append(st.out, <<sigOutL, sigOutR>>),
       loc |-> Append(st.loc,
                 [Wr |-> st.Wr, cur |-> cur, readIndex |-> readIndex,
                  delayLineSig_L |-> delayLineSig_L,
                  delayLineSig_R |-> delayLineSig_R,
                  dry |-> env.dry, wet |-> env.wet])]

RECURSIVE RunFrames(_, _, _, _)
\* for (; x != x_e; ) over the frames i .. Len(xin) of the buffer
RunFrames(st, xin, i, env) ==
  IF i > Len(xin) THEN st
  ELSE RunFrames(Frame(st, xin[i], env), xin, i + 1, env)

\* DELFX_PROCESS(xn, frames) on the buffer xin of Len(xin) frames
DELFX_PROCESS(xin, ub) ==
  LET tgt == TargetDelayTime(bpm, multiplier)
      st0 == [L |-> delayLine_L, R |-> delayLine_R, Wr |-> delayLine_Wr,
              cur |-> currentDelayTime, out |-> << >>, loc |-> << >>]
      env == [tgt |-> tgt, depth |-> valDepth, dry |-> dry, wet |-> wet,
              ub |-> ub]
      res == RunFrames(st0, xin, 1, env)
  IN  /\ targetDelayTime' = tgt
      /\ delayLine_L' = res.L
      /\ delayLine_R' = res.R
      /\ delayLine_Wr' = res.Wr
      /\ currentDelayTime' = res.cur
      /\ xn' = res.out
      /\ loc' = res.loc
      /\ UNCHANGED <<valDepth, valTime, multiplier, wet, dry, bpm, pcParam,
                     s_mix>>

\* the host's transport changes the tempo fx_get_bpmf() reports
HostTempo(b) ==
  /\ bpm' = b
  /\ UNCHANGED <<delayLine_L, delayLine_R, delayLine_Wr, currentDelayTime,
                 targetDelayTime, valDepth, valTime, multiplier, wet, dry,
                 xn, loc, pcParam, s_mix>>

(* ------------------------------ DELFX_PARAM ---------------------------- *)
\* q31_to_f32(value): the q31 value as a float, rounded to the nearest
\* point of the amplitude grid
q31_to_f32(value) ==
  (value \div Q31PerUnit)
    + (IF value % Q31PerUnit >= Q31PerUnit \div 2 THEN 1 ELSE 0)

\* the table index scaled to one division too few
DivIndex_Short(valf) ==
  LET f == valf * (NUM_DELAY_DIVISIONS - 2)
      divIndex == IF f >= 0 THEN f \div ONE ELSE -((-f) \div ONE)
  IN  IF divIndex >= NUM_DELAY_DIVISIONS \/ divIndex < 0
        THEN NUM_DELAY_DIVISIONS - 1
        ELSE divIndex

\* the time knob's table index: f = valf * (NUM_DELAY_DIVISIONS - 1),
\* divIndex = (int)f, with the failsafe
DivIndex(valf) ==
  LET f == valf * (NUM_DELAY_DIVISIONS - 1)
      divIndex == IF f >= 0 THEN f \div ONE ELSE -((-f) \div ONE)
  IN  IF divIndex >= NUM_DELAY_DIVISIONS \/ divIndex < 0
        THEN NUM_DELAY_DIVISIONS - 1
        ELSE divIndex

\* the wet/dry law without the 0.51 offset in the right half
MixLaw_NoOffset(valf) ==
  IF valf <= Frac(49, 100) THEN MulF(Frac(50, 49), valf)
  ELSE IF valf >= Frac(51, 100)
    THEN (ONE \div 2) + MulF(Frac(102, 100), valf)
  ELSE ONE \div 2

\* the wet/dry law: s_mix from valf
MixLaw(valf) ==
  IF valf <= Frac(49, 100) THEN MulF(Frac(50, 49), valf)
  ELSE IF valf >= Frac(51, 100)
    THEN (ONE \div 2) + MulF(Frac(102, 100), valf - Frac(51, 100))
  ELSE ONE \div 2

\* case k_user_delfx_param_time
ParamTime(valf) ==
  /\ valTime' = valf
  /\ multiplier' = delayDivisions[DivIndex(valf) + 1]
  /\ UNCHANGED <<delayLine_L, delayLine_R, delayLine_Wr, currentDelayTime,
                 targetDelayTime, valDepth, wet, dry, bpm, xn, loc, pcParam,
                 s_mix>>

\* the depth case without its break, falling through to the wet/dry case
ParamDepth_FallThrough(valf) ==
  /\ valDepth' = valf
  /\ s_mix' = MixLaw(valf)
  /\ dry' = ONE - s_mix'
  /\ wet' = s_mix'
  /\ UNCHANGED <<delayLine_L, delayLine_R, delayLine_Wr, currentDelayTime,
                 targetDelayTime, valTime, multiplier, bpm, xn, loc, pcParam>>

\* case k_user_delfx_param_depth
ParamDepth(valf) ==
  /\ valDepth' = valf
  /\ UNCHANGED <<delayLine_L, delayLine_R, delayLine_Wr, currentDelayTime,
                 targetDelayTime, valTime, multiplier, wet, dry, bpm, xn,
                 loc, pcParam, s_mix>>

\* case k_user_delfx_param_shift_depth, up to the store dry = 1.0f - s_mix
ParamMixStoreDry(value) ==
  /\ pcParam = "idle"
  /\ s_mix' = MixLaw(q31_to_f32(value))
  /\ dry' = ONE - s_mix'
  /\ pcParam' = "wet"
  /\ UNCHANGED <<delayLine_L, delayLine_R, delayLine_Wr, currentDelayTime,
                 targetDelayTime, valDepth, valTime, multiplier, wet, bpm,
                 xn, loc>>

\* the last store writing the dry level into wet
ParamMixStoreWet_Inverted ==
  /\ pcParam = "wet"
  /\ wet' = ONE - s_mix
  /\ pcParam' = "idle"
  /\ UNCHANGED <<delayLine_L, delayLine_R, delayLine_Wr, currentDelayTime,
                 targetDelayTime, valDepth, valTime, multiplier, dry, bpm,
                 xn, loc, s_mix>>

\* the store wet = s_mix that ends the case
ParamMixStoreWet ==
  /\ pcParam = "wet"
  /\ wet' = s_mix
  /\ pcParam' = "idle"
  /\ UNCHANGED <<delayLine_L, delayLine_R, delayLine_Wr, currentDelayTime,
                 targetDelayTime, valDepth, valTime, multiplier, dry, bpm,
                 xn, loc, s_mix>>

\* case k_user_delfx_param_shift_depth, both stores in one step
ParamMix(valf) ==
  /\ s_mix' = MixLaw(valf)
  /\ dry' = ONE - s_mix'
  /\ wet' = s_mix'
  /\ UNCHANGED <<delayLine_L, delayLine_R, delayLine_Wr, currentDelayTime,
                 targetDelayTime, valDepth, valTime, multiplier, bpm, xn,
                 loc, pcParam>>

\* default: no handling
ParamDefault == UNCHANGED vars

\* DELFX_PARAM(index, value), run without interruption
DELFX_PARAM(index, value) ==
  /\ pcParam = "idle"
  /\ CASE index = k_user_delfx_param_time -> ParamTime(q31_to_f32(value))
       [] index = k_user_delfx_param_depth -> ParamDepth(q31_to_f32(value))
       [] index = k_user_delfx_param_shift_depth ->
            ParamMix(q31_to_f32(value))
       [] OTHER -> ParamDefault

(* --------------------------- inputs of the model ----------------------- *)
\* one stereo frame: silence, or a unit impulse on the right channel
FrameInputs == { <<0, 0>>, <<0, ONE>> }

\* the buffers of n frames
Blocks(n) == [1 .. n -> FrameInputs]

\* the buffer of n silent frames
Silence(n) == [i \in 1 .. n |-> <<0, 0>>]

\* the q31 value that q31_to_f32 turns into valf
RawOf(valf) == IF valf >= ONE THEN Q31_MAX ELSE valf * Q31PerUnit

\* knob positions: fully left, fully right
KnobValues == { 0, Q31_MAX }

\* control ids: the three controls and one that is none of them
ParamIds == { k_user_delfx_param_time, k_user_delfx_param_depth,
              k_user_delfx_param_shift_depth, 3 }

\* host tempos: 240 BPM, and 0, which takes the failsafe
BpmSet == { 240, 0 }

\* the outcomes of the undefined conversion that a call can meet: the glide
\* keeps the delay time between its old value and the target, so while both
\* fit in the line no read position is negative and the outcome is not used
UndefOutcomes ==
  IF /\ currentDelayTime <= DELAY_LINE_SIZE_MASK * U
     /\ TargetDelayTime(bpm, multiplier) <= DELAY_LINE_SIZE_MASK * U
    THEN {0}
    ELSE UndefBase

(* ------------- the effect driven by the host, short runs --------------- *)
Init == \E b \in BpmSet : Activated(b)

Process ==
  \E n \in 0 .. MaxBlock : \E xin \in Blocks(n) : \E ub \in UndefOutcomes :
    /\ delayLine_Wr + n <= MaxRun
    /\ DELFX_PROCESS(xin, ub)

Param == \E index \in ParamIds : \E value \in KnobValues :
           DELFX_PARAM(index, value)

Tempo == \E b \in BpmSet : HostTempo(b)

Next == DELFX_INIT \/ Process \/ Param \/ Tempo

Spec == Init /\ [][Next]_vars

(* ------------- long silent runs: the cursor and the glide -------------- *)
\* host tempos of the long runs: 240 BPM, where the delay time is at its
\* target from the start, and 160 BPM, where it glides
BpmLong == { 240, 160 }

InitLong == \E b \in BpmLong : Activated(b)

ProcessLong ==
  \E n \in 1 .. MaxLongBlock : \E ub \in UndefOutcomes :
    DELFX_PROCESS(Silence(n), ub)

NextLong == ProcessLong \/ DELFX_INIT

SpecLong == InitLong /\ [][NextLong]_vars

\* a host tempo of 30 BPM, positive and below MIN_BPM, in calls of LowBlock
\* frames
InitLow == Activated(30)

ProcessLow == \E ub \in UndefOutcomes : DELFX_PROCESS(Silence(LowBlock), ub)

SpecLow == InitLow /\ [][ProcessLow]_vars

\* the glide alone, at a constant tempo of 120 BPM, one frame per call
InitGlide == Activated(120)

ProcessGlide == \E ub \in UndefOutcomes : DELFX_PROCESS(Silence(1), ub)

SpecGlide == InitGlide /\ [][ProcessGlide]_vars

(* --------------- one impulse on the right channel ---------------------- *)
\* feedback depths: 0, 1/4, 1/2, 3/4, 1
DepthValues == { RawOf(Frac(k, 4)) : k \in 0 .. 4 }

\* the last frame offset of the impulse run: three delay times
ImpulseRun == 3 * ModelRate

\* n frames starting at frame offset w: a unit impulse on the right channel
\* at offset 0, silence everywhere else
ImpulseInput(w, n) ==
  [i \in 1 .. n |-> IF w + i - 1 = 0 THEN <<0, ONE>> ELSE <<0, 0>>]

InitImpulse == Activated(240)

\* the depth is set before the first frame
ImpulseDepth ==
  /\ delayLine_Wr = 0
  /\ \E value \in DepthValues : DELFX_PARAM(k_user_delfx_param_depth, value)

ImpulseMix ==
  \E value \in KnobValues : DELFX_PARAM(k_user_delfx_param_shift_depth, value)

ImpulseProcess ==
  \E n \in 1 .. MaxBlock : \E ub \in UndefOutcomes :
    /\ delayLine_Wr + n <= ImpulseRun + 1
    /\ ImpulseRun + 1 < DELAY_LINE_SIZE
    /\ DELFX_PROCESS(ImpulseInput(delayLine_Wr, n), ub)

NextImpulse == ImpulseDepth \/ ImpulseMix \/ ImpulseProcess

SpecImpulse == InitImpulse /\ [][NextImpulse]_vars

(* ---------------------- the knobs alone -------------------------------- *)
\* knob positions k/KnobSteps, and 0.49, 0.5, 0.51
KnobGrid ==
  { RawOf(Frac(k, KnobSteps)) : k \in 0 .. KnobSteps }
    \cup { RawOf(Frac(49, 100)), RawOf(ONE \div 2), RawOf(Frac(51, 100)) }

InitKnob == Activated(240)

KnobTime == \E value \in KnobGrid : DELFX_PARAM(k_user_delfx_param_time, value)

KnobMix ==
  \E value \in KnobGrid : DELFX_PARAM(k_user_delfx_param_shift_depth, value)

NextKnob == KnobTime \/ KnobMix

SpecKnob == InitKnob /\ [][NextKnob]_vars

(* ------- DELFX_PARAM on the wet/dry control interrupted by audio -------- *)
\* wet/dry knob positions 0, 1/4, 1/2, 3/4, 1
MixValues == { RawOf(Frac(k, 4)) : k \in 0 .. 4 }

InitRace == Activated(240)

RaceStoreDry == \E value \in MixValues : ParamMixStoreDry(value)

RaceStoreWet == ParamMixStoreWet

\* the audio callback runs whole buffers, wherever DELFX_PARAM stands
RaceProcess ==
  \E n \in 1 .. MaxBlock : \E xin \in Blocks(n) : \E ub \in UndefOutcomes :
    /\ delayLine_Wr + n <= MaxRun
    /\ DELFX_PROCESS(xin, ub)

NextRace == RaceStoreDry \/ RaceStoreWet \/ RaceProcess

SpecRace == InitRace /\ [][NextRace]_vars

(* ============================== properties ============================= *)
\* both delay lines hold silence
Quiet == \A c \in Cells : delayLine_L[c] = 0 /\ delayLine_R[c] = 0

\* the delay time is at its target and a whole number T of samples, and
\* three delay times fit in the line
StableWhole ==
  /\ currentDelayTime = targetDelayTime
  /\ currentDelayTime % U = 0
  /\ 3 * (currentDelayTime \div U) < DELAY_LINE_SIZE

\* C1 (as amended): after DELFX_INIT, with depth d and a stable whole delay
\* time T, a unit impulse on the right channel at frame 0 comes back on the
\* right channel at offset T with amplitude 1, on the left channel at 2T
\* with amplitude d and on the right channel at 3T with amplitude d*d; at
\* every other offset up to 3T both delayed signals are zero, so the left
\* one is zero before 2T.
C1_PingPong ==
  StableWhole =>
    \A i \in DOMAIN loc :
      LET n == loc[i].Wr
          T == currentDelayTime \div U
      IN  n <= 3 * T =>
            /\ loc[i].delayLineSig_R =
                 (IF n = T THEN ONE
                  ELSE IF n = 3 * T THEN MulF(valDepth, valDepth)
                  ELSE 0)
            /\ loc[i].delayLineSig_L = (IF n = 2 * T THEN valDepth ELSE 0)

\* C1 as stated: the delayed signal is d on the left at offset T and d*d on
\* the right at 2T, and zero on the left before T.
C1_Original ==
  StableWhole =>
    \A i \in DOMAIN loc :
      LET n == loc[i].Wr
          T == currentDelayTime \div U
      IN  /\ n = T => loc[i].delayLineSig_L = valDepth
          /\ n = 2 * T => loc[i].delayLineSig_R = MulF(valDepth, valDepth)
          /\ n < T => loc[i].delayLineSig_L = 0

\* the third echo of an impulse sent through depth 1/2 has been rendered
C1_ThirdEcho ==
  /\ StableWhole
  /\ valDepth = ONE \div 2
  /\ \E i \in DOMAIN loc :
       /\ loc[i].Wr = 3 * (currentDelayTime \div U)
       /\ loc[i].delayLineSig_R = ONE \div 4

\* C2: DELFX_INIT leaves both lines silent, and from silent lines a
\* DELFX_PROCESS call on an all-zero buffer writes an all-zero buffer and
\* leaves the lines silent, whatever the tempo and whatever DELFX_PARAM
\* calls and tempo changes come in between.
C2_Silence ==
  [][ /\ DELFX_INIT => Quiet'
      /\ \A n \in 0 .. MaxBlock :
           (Quiet /\ \E ub \in UndefOutcomes : DELFX_PROCESS(Silence(n), ub))
             => (Quiet' /\ xn' = Silence(n))
      /\ (Quiet /\ (Param \/ Tempo)) => Quiet' ]_vars

\* silence has been processed with the knobs turned and the failsafe tempo
C2_SilentBlock ==
  /\ Quiet
  /\ delayLine_Wr > 0
  /\ xn = Silence(delayLine_Wr)
  /\ valDepth = ONE
  /\ bpm = 0

\* C3: the write cursor is always a cell of the line, DELFX_PROCESS on n
\* frames advances it by n modulo the line length (by one per frame), and
\* DELFX_INIT sets it to 0.
C3_Cursor ==
  /\ delayLine_Wr \in Cells
  /\ [][ /\ delayLine_Wr' \in Cells
         /\ ProcessLong =>
              delayLine_Wr' = (delayLine_Wr + Len(xn')) % DELAY_LINE_SIZE
         /\ DELFX_INIT => delayLine_Wr' = 0 ]_vars

\* a call of two frames has taken the cursor across the end of the line
C3_Wrapped ==
  /\ delayLine_Wr = 1
  /\ Len(loc) = 2
  /\ loc[1].Wr = DELAY_LINE_SIZE - 1
  /\ loc[2].Wr = 0

\* C4: in every frame the read position handed to readFrac is not negative
\* and smaller than the line length.
C4_ReadInRange ==
  \A i \in DOMAIN loc :
    /\ loc[i].readIndex >= 0
    /\ loc[i].readIndex < DELAY_LINE_SIZE * U

\* 1e-6 and 1e-3 on the amplitude grid
MixTol == ONE \div 1000000

MixAbout == ONE \div 1000

\* DELFX_PARAM on the wet/dry control with the knob at v
MixStep(v) == DELFX_PARAM(k_user_delfx_param_shift_depth, RawOf(v))

\* C5 (as amended): after DELFX_PARAM on the wet/dry control, wet + dry is 1
\* within 1e-6 at knob values 0.49, 0.5 and 0.51; wet = 0 and dry = 1 at 0;
\* and wet is about 0.9998 and dry about 0.0002 at 1.
C5_MixLaw ==
  [][ /\ \A v \in { Frac(49, 100), ONE \div 2, Frac(51, 100) } :
           MixStep(v) => Abs(wet' + dry' - ONE) <= MixTol
      /\ MixStep(0) => (wet' = 0 /\ dry' = ONE)
      /\ MixStep(ONE) =>
           /\ Abs(wet' - (ONE - Frac(1, 5000))) <= MixAbout
           /\ Abs(dry' - Frac(1, 5000)) <= MixAbout ]_vars

\* C5 as stated: at knob value 1, wet is about 1.0201 and dry about -0.0201.
C5_Original ==
  [][ /\ \A v \in { Frac(49, 100), ONE \div 2, Frac(51, 100) } :
           MixStep(v) => Abs(wet' + dry' - ONE) <= MixTol
      /\ MixStep(0) => (wet' = 0 /\ dry' = ONE)
      /\ MixStep(ONE) =>
           /\ Abs(wet' - (ONE + Frac(201, 10000))) <= MixAbout
           /\ Abs(dry' + Frac(201, 10000)) <= MixAbout ]_vars

\* the wet/dry knob has been turned fully right
C5_FullWet ==
  /\ Abs(wet - (ONE - Frac(1, 5000))) <= MixAbout
  /\ wet + dry = ONE
  /\ wet > dry

\* the multiplier the time knob selects at the q31 value
MultiplierOf(value) == delayDivisions[DivIndex(q31_to_f32(value)) + 1]

\* C6: DELFX_PARAM on the time control with a knob value in [0,1] selects a
\* table index within 0..14; the value 0.0 selects the multiplier 0.015625,
\* the value 1.0 selects 1.0, and no larger knob value selects a smaller
\* multiplier.
C6_Division ==
  [][ \A value \in KnobGrid :
        DELFX_PARAM(k_user_delfx_param_time, value) =>
          /\ DivIndex(q31_to_f32(value)) \in 0 .. (NUM_DELAY_DIVISIONS - 1)
          /\ \E k \in 1 .. NUM_DELAY_DIVISIONS : multiplier' = delayDivisions[k]
          /\ value = 0 => multiplier' = ONE \div 64
          /\ value = Q31_MAX => multiplier' = ONE
          /\ \A v2 \in KnobGrid :
               value <= v2 => multiplier' <= MultiplierOf(v2) ]_vars

\* the time knob has been turned fully right and selects the last division
C6_FullTime == valTime = ONE /\ multiplier = delayDivisions[NUM_DELAY_DIVISIONS]

\* one sample on the time grid
GlideEps == U

\* C7: with tempo and division constant, a frame never takes the delay time
\* farther from its target nor across it, and the distance to the target
\* eventually falls below one sample.  The glide is a function of the delay
\* time and the target alone, so with a constant target the distance falls
\* below one sample exactly if every frame that starts a sample or more
\* away from the target ends closer to it: a frame that does not is
\* repeated by every later frame.
C7_Glide ==
  [][ LET t == targetDelayTime'
      IN  /\ Abs(t - currentDelayTime') <= Abs(t - currentDelayTime)
          /\ currentDelayTime <= t => currentDelayTime' <= t
          /\ currentDelayTime >= t => currentDelayTime' >= t
          /\ Abs(t - currentDelayTime) >= GlideEps =>
                Abs(t - currentDelayTime') < Abs(t - currentDelayTime) ]_vars

\* C8: DELFX_PARAM never changes the delay lines, the cursor or the two
\* delay times; on the time control it changes only valTime and multiplier,
\* on the depth control only valDepth, on the wet/dry control only wet and
\* dry, and on any other control id nothing at all.
C8_ParamFrame ==
  [][ \A index \in ParamIds : \A value \in KnobValues :
        DELFX_PARAM(index, value) =>
          /\ UNCHANGED <<delayLine_L, delayLine_R, delayLine_Wr,
                         currentDelayTime, targetDelayTime>>
          /\ index = k_user_delfx_param_time => UNCHANGED <<valDepth, wet, dry>>
          /\ index = k_user_delfx_param_depth =>
               UNCHANGED <<valTime, multiplier, wet, dry>>
          /\ index = k_user_delfx_param_shift_depth =>
               UNCHANGED <<valTime, multiplier, valDepth>>
          /\ index = 3 =>
               UNCHANGED <<valTime, multiplier, valDepth, wet, dry>> ]_vars

\* every knob has been turned while the lines hold an impulse and the delay
\* time is gliding
C8_KnobsTurned ==
  /\ ~Quiet
  /\ delayLine_Wr = MaxRun
  /\ currentDelayTime # targetDelayTime
  /\ valTime = ONE
  /\ valDepth = ONE
  /\ wet = 0

\* C9: in every frame the read position is congruent to the cursor minus
\* the delay time modulo the line length, whether or not the negative-index
\* branch is taken.
C9_Lag ==
  \A i \in DOMAIN loc :
    (loc[i].readIndex - (loc[i].Wr * U - loc[i].cur)) % (DELAY_LINE_SIZE * U) = 0

\* C10: a frame processed while no DELFX_PARAM call on the wet/dry control
\* is between its two stores is rendered with wet + dry = 1 (within 1e-6).
C10_MixPair ==
  [][ (pcParam = "idle" /\ RaceProcess) =>
        \A i \in DOMAIN loc' :
          Abs(loc'[i].wet + loc'[i].dry - ONE) <= MixTol ]_vars

\* a frame has been rendered between the two stores, with the new dry and
\* the old wet, which do not add up to 1
C10_TornPair ==
  /\ pcParam = "wet"
  /\ \E i \in DOMAIN loc :
       /\ loc[i].dry = dry
       /\ loc[i].wet = wet
       /\ Abs(loc[i].wet + loc[i].dry - ONE) > MixTol
       /\ xn[i] # <<0, 0>>

====
